---- MODULE Spec2Model ----
(***************************************************************************)
(* ConvertX: the batch conversion pipeline as seen from the three builds   *)
(* of the React client kept in the repository:                             *)
(*   - src/unnamed/part_001   handleConvertAll, streaming (NDJSON) binding *)
(*   - src/unnamed/part_002   handleConvertAll, one-shot /convert-batch    *)
(*   - src/frontend/src/App.js  convertFiles, one-shot /convert            *)
(* The Flask backend is not part of the sources; the orchestrator, the     *)
(* converter and the detector behind the HTTP boundary are modelled from   *)
(* spec.md (sections 4.1 - 4.5).                                           *)
(***************************************************************************)
EXTENDS Integers, Sequences, FiniteSets, TLC

VARIABLES
    binding,            \* "stream" (part_001), "oneshot" (part_002) or "app" (App.js)
    serverSendsOverall, \* whether progress frames carry overall_progress
    serverSendsProgress,\* whether a result carries a per-file progress figure
    files,              \* useState: files
    fileInfos,          \* useState: fileInfos
    inflight,           \* detectFileFormat calls awaiting makeApiCall / generatePreview
    nextId,             \* ids handed out so far (Math.random ids, all distinct)
    compressionSettings,\* useState: compressionSettings (App.js only)
    isBackendConnected, \* useState: isBackendConnected
    connI,              \* checkBackendConnection: loop index i, or ConnDone
    isLoading,          \* useState: isLoading
    error,              \* useState: error
    progress,           \* useState: progress
    conversionResults,  \* useState: conversionResults
    conversionComplete, \* useState: conversionComplete
    pc,                 \* where handleConvertAll / convertFiles is suspended
    formData,           \* the request body built by the handler
    totalFiles,         \* handleConvertAll local: totalFiles
    totalProcessed,     \* handleConvertAll local: totalProcessed
    buffer,             \* handleConvertAll local: buffer (undecoded partial line)
    batchNo,            \* number of batches the backend has accepted
    jobs,               \* orchestrator: the ConversionJobs of the current batch
    completedCount,     \* orchestrator: BatchState.completedCount
    unsent,             \* orchestrator: results terminal since the previous frame
    wire,               \* response body bytes written and not yet read
    streamClosed,       \* the backend has ended the response body
    evicted             \* artifact store: the handles it has purged

vars == << binding, serverSendsOverall, serverSendsProgress, files, fileInfos, inflight, nextId,
           compressionSettings, isBackendConnected, connI,
           isLoading, error, progress, conversionResults, conversionComplete,
           pc, formData, totalFiles, totalProcessed, buffer,
           batchNo, jobs, completedCount, unsent, wire, streamClosed, evicted >>

buildVars  == << binding, serverSendsOverall, serverSendsProgress >>
clientList == << files, fileInfos, inflight, nextId, compressionSettings >>
connVars   == << isBackendConnected, connI >>
serverVars == << batchNo, jobs, completedCount, unsent, wire, streamClosed >>
localVars  == << formData, totalFiles, totalProcessed, buffer >>

----------------------------------------------------------------------------
(* Bounds of the model                                                     *)

MaxFiles == 2
MaxBatches == 2
MaxChunk == 4
MaxPending == 1

(* Program constants                                                       *)

ConnRetries == 3
DefaultQuality == 80

Null == "null"
NoUrl == << >>
ConnDone == -1
NaN == -1

----------------------------------------------------------------------------
(* Files the user can drop.  A name is the list of its dot-separated parts *)
(* (what name.split('.') yields); valid tells whether the bytes decode.    *)

FileUniverse ==
    { [name |-> <<"a", "png">>, valid |-> TRUE],
      [name |-> <<"a", "png">>, valid |-> FALSE],
      [name |-> <<"b", "pdf">>, valid |-> TRUE] }

AllNames == {f.name : f \in FileUniverse}

(* An entry of compressionSettings: {} has neither key (0 and "" stand for  *)
(* an absent quality and an absent level).                                  *)
NoSetting == [quality |-> 0, level |-> ""]

----------------------------------------------------------------------------
(* Helpers over sequences                                                  *)

Min(a, b) == IF a < b THEN a ELSE b

Last(s) == s[Len(s)]

RemoveAt(s, i) == SubSeq(s, 1, i - 1) \o SubSeq(s, i + 1, Len(s))

RECURSIVE SumSeq(_)
SumSeq(s) == IF s = << >> THEN 0 ELSE Head(s) + SumSeq(Tail(s))

(* Math.round of the quotient num / den of two non-negative integers:      *)
(* the nearest integer, halves rounded up.                                 *)
MathRound(num, den) == (2 * num + den) \div (2 * den)

----------------------------------------------------------------------------
(* Format tables of the client                                             *)

ToUpperCase(s) ==
    CASE s = "png"  -> "PNG"
      [] s = "jpg"  -> "JPG"
      [] s = "jpeg" -> "JPEG"
      [] s = "bmp"  -> "BMP"
      [] s = "pdf"  -> "PDF"
      [] s = "docx" -> "DOCX"
      [] s = "txt"  -> "TXT"
      [] s = "a"    -> "A"
      [] s = "b"    -> "B"
      [] OTHER      -> s

getConversionOptions(format) ==
    CASE ToUpperCase(format) = "PDF" -> << "DOCX" >>
      [] ToUpperCase(format) \in {"JPG", "JPEG", "PNG", "BMP"} -> << "PNG", "JPG", "JPEG" >>
      [] OTHER -> << >>

FirstOption(format) ==
    IF getConversionOptions(format) = << >> THEN "" ELSE Head(getConversionOptions(format))

Quality(q) == [kind |-> "quality", q |-> q, tier |-> "none"]
Tier(t) == [kind |-> "tier", q |-> 0, tier |-> t]
NoCompression == [kind |-> "null", q |-> 0, tier |-> "none"]

getDefaultCompression(format) ==
    CASE ToUpperCase(format) = "PDF" -> Tier("medium")
      [] ToUpperCase(format) \in {"JPG", "JPEG", "PNG", "BMP"} -> Quality(DefaultQuality)
      [] OTHER -> NoCompression

(* Backend /detect: the format tag of a file, from its extension           *)
(* (IMPLEMENTATION.md: mimetypes.guess_type with extension fallback).      *)
KnownTags == {"PDF", "PNG", "JPEG", "BMP", "DOCX"}

DetectFormat(file) ==
    LET ext == ToUpperCase(Last(file.name))
        tag == IF ext = "JPG" THEN "JPEG" ELSE ext
    IN  IF tag \in KnownTags THEN tag ELSE "UNKNOWN"

----------------------------------------------------------------------------
(* Backend, modelled from spec.md: converter, orchestrator, progress frames *)

NoResult == [filename |-> << >>, status |-> "none", error |-> "", downloadUrl |-> NoUrl, progress |-> 0]

(* The per-file progress figure of a result is not part of the             *)
(* ConversionResult of spec.md section 3; the client reads it as           *)
(* `result.progress || 0`.  A backend that reports it reports a finished   *)
(* job as 100; for one that does not, the client reads 0.                  *)
ResultProgressFull == 100

ResultProgress(reported) == IF reported THEN ResultProgressFull ELSE 0

(* 4.3 Single-File Converter: a result for one request.  handle is the     *)
(* fresh ArtifactHandle used when the conversion succeeds.                 *)
Convert(req, handle, p) ==
    IF req.format = ""
    THEN [filename |-> req.name, status |-> "failed", error |-> "unsupported conversion",
          downloadUrl |-> NoUrl, progress |-> p]
    ELSE IF ~req.file.valid
    THEN [filename |-> req.name, status |-> "failed", error |-> "conversion failure",
          downloadUrl |-> NoUrl, progress |-> p]
    ELSE [filename |-> req.name, status |-> "success", error |-> "",
          downloadUrl |-> handle, progress |-> p]

(* 4.2, 4.3: the option shape a strategy declares for its target, and the  *)
(* validation of a numeric quality, which is clamped into [1,100]          *)
RasterTags == {"PNG", "JPEG", "BMP"}
DocumentTags == {"DOCX"}

QualityMin == 1
QualityMax == 100

ClampQuality_UpperOnly(q) == IF q > QualityMax THEN QualityMax ELSE q

ClampQuality(q) ==
    IF q > QualityMax THEN QualityMax
    ELSE IF q < QualityMin THEN QualityMin
    ELSE q

ValidOption(target, compression) ==
    IF target \in RasterTags /\ compression.kind = "quality"
    THEN Quality(ClampQuality(compression.q))
    ELSE compression

(* The output bytes of a successful conversion: what the strategy makes of *)
(* the source bytes and the validated option, and what put() stores        *)
Artifact(req) ==
    [source |-> req.file, format |-> req.format,
     option |-> ValidOption(req.format, req.compression)]

Terminal == {"success", "failed"}

TerminalJobs(js) == {i \in 1..Len(js) : js[i].state \in Terminal}

(* 4.4: overallProgress = round(100 * completedCount / totalJobs)          *)
OverallProgress(cc, total) == MathRound(100 * cc, total)

ProgressFrame(cc, total, results, withOverall) ==
    [hasOverall |-> withOverall, overall_progress |-> OverallProgress(cc, total),
     processed |-> cc, totalJobs |-> total, results |-> results]

(* One frame per line: the JSON text of a frame travels as two pieces      *)
(* followed by a newline, so that a read can end inside a frame.           *)
NoFrame == ProgressFrame(0, 1, << >>, FALSE)
NL == [t |-> "nl", frame |-> NoFrame]
Encode(frame) == << [t |-> "head", frame |-> frame], [t |-> "tail", frame |-> frame], NL >>

(* The one-shot body: every ConversionResult, in submission order.         *)
AggregateResults(js) == [i \in 1..Len(js) |-> js[i].result]

----------------------------------------------------------------------------
(* Client: decoding the stream (part_001, lines 412-421)                   *)

(* buffer.split('\n'): the segments between newlines; the last segment is  *)
(* what follows the last newline (possibly empty).                         *)
RECURSIVE SplitLines(_)
SplitLines(s) ==
    IF s = << >> THEN << << >> >>
    ELSE LET rest == SplitLines(Tail(s))
         IN  IF Head(s) = NL
             THEN << << >> >> \o rest
             ELSE << << Head(s) >> \o Head(rest) >> \o Tail(rest)

(* JSON.parse(line) succeeds when the line is the whole text of one frame. *)
Parses(line) ==
    /\ Len(line) = 2
    /\ line[1].t = "head"
    /\ line[2].t = "tail"
    /\ line[1].frame = line[2].frame

JSONParse(line) == line[1].frame

----------------------------------------------------------------------------
(* Client: applying results (part_001 437-450, part_002 351-364)           *)

(* data.results.find(r => r.filename === name): index of the first match,  *)
(* 0 when there is none.                                                    *)
FindResult(results, name) ==
    IF \E k \in 1..Len(results) : results[k].filename = name
    THEN CHOOSE k \in 1..Len(results) :
            /\ results[k].filename = name
            /\ \A j \in 1..(k - 1) : results[j].filename # name
    ELSE 0

OrNull(e) == IF e = "" THEN Null ELSE e

FullUrl(u) == IF u = NoUrl THEN NoUrl ELSE << "backendUrl" >> \o u

ApplyResult_DropsError(info, result) ==
    [info EXCEPT !.status = result.status,
                 !.error = Null,
                 !.downloadUrl = FullUrl(result.downloadUrl),
                 !.progress = result.progress]

ApplyResult_KeepsUrl(info, result) ==
    [info EXCEPT !.status = result.status,
                 !.error = OrNull(result.error),
                 !.downloadUrl = IF result.downloadUrl = NoUrl THEN info.downloadUrl
                                 ELSE FullUrl(result.downloadUrl),
                 !.progress = result.progress]

ApplyResult(info, result) ==
    [info EXCEPT !.status = result.status,
                 !.error = OrNull(result.error),
                 !.downloadUrl = FullUrl(result.downloadUrl),
                 !.progress = result.progress]

ApplyResults(infos, results) ==
    [i \in 1..Len(infos) |->
        LET k == FindResult(results, infos[i].name)
        IN  IF k = 0 THEN infos[i] ELSE ApplyResult(infos[i], results[k])]

(* part_002 345-347: Math.round(sum(result.progress || 0) / results.length) *)
TotalProgress(results) ==
    IF Len(results) = 0 THEN NaN
    ELSE MathRound(SumSeq([k \in 1..Len(results) |-> results[k].progress]), Len(results))

(* part_001 422-456: one parsed frame.  st carries the React state and the  *)
(* locals the loop body writes.                                             *)
ProcessFrame(st, data) ==
    LET tp  == IF ~data.hasOverall THEN data.processed ELSE st.totalProcessed
        pr  == IF data.hasOverall THEN data.overall_progress
               ELSE MathRound(tp * 100, st.totalFiles)
        fis == IF data.results # << >> THEN ApplyResults(st.fileInfos, data.results)
               ELSE st.fileInfos
        cc  == IF tp = st.totalFiles \/ (data.hasOverall /\ data.overall_progress = 100)
               THEN TRUE ELSE st.conversionComplete
    IN  [st EXCEPT !.totalProcessed = tp, !.progress = pr, !.fileInfos = fis,
                   !.conversionComplete = cc]

ProcessLine(st, line) ==
    IF line = << >> THEN st
    ELSE IF ~Parses(line) THEN st
    ELSE ProcessFrame(st, JSONParse(line))

RECURSIVE ProcessLines(_, _)
ProcessLines(st, lines) ==
    IF lines = << >> THEN st
    ELSE ProcessLines(ProcessLine(st, Head(lines)), Tail(lines))

----------------------------------------------------------------------------
(* Initial state: the component as mounted                                 *)

InitCommon ==
    /\ files = << >>
    /\ fileInfos = << >>
    /\ inflight = [f \in FileUniverse |-> 0]
    /\ nextId = 0
    /\ compressionSettings = [n \in AllNames |-> NoSetting]
    /\ isBackendConnected = FALSE
    /\ connI = 0
    /\ isLoading = FALSE
    /\ error = Null
    /\ progress = 0
    /\ conversionResults = << >>
    /\ conversionComplete = FALSE
    /\ pc = "idle"
    /\ formData = << >>
    /\ totalFiles = 0
    /\ totalProcessed = 0
    /\ buffer = << >>
    /\ batchNo = 0
    /\ jobs = << >>
    /\ completedCount = 0
    /\ unsent = << >>
    /\ wire = << >>
    /\ streamClosed = FALSE
    /\ evicted = {}

(* The backend is one of the kinds the client code is written for.  The   *)
(* stream either carries overall_progress in every frame (spec.md 4.4:    *)
(* the client takes lines 426-427) or carries the processed count and a   *)
(* per-file progress in each result (the client takes lines 428-433); the *)
(* aggregate response has no frames, and its results carry a per-file     *)
(* progress or not.                                                       *)
Init ==
    /\ binding \in {"stream", "oneshot"}
    /\ serverSendsOverall \in BOOLEAN
    /\ serverSendsProgress \in BOOLEAN
    /\ binding = "oneshot" => serverSendsOverall
    /\ binding = "stream" => serverSendsProgress = ~serverSendsOverall
    /\ InitCommon

----------------------------------------------------------------------------
(* part_001 / part_002: building the file list                             *)

(* handleDrop / handleFileSelect for one file: setFiles, then               *)
(* detectFileFormat starts its request.                                     *)
HandleDrop(f) ==
    /\ binding \in {"stream", "oneshot"}
    /\ Len(files) < MaxFiles
    /\ files' = Append(files, f)
    /\ inflight' = [inflight EXCEPT ![f] = @ + 1]
    /\ UNCHANGED << buildVars, evicted, fileInfos, nextId, compressionSettings,
                    connVars, isLoading, error, progress, conversionResults,
                    conversionComplete, pc, localVars, serverVars >>

NewFileInfo(id, file, format) ==
    [id |-> id, file |-> file, name |-> file.name, format |-> format,
     selectedFormat |-> FirstOption(format),
     compression |-> getDefaultCompression(format),
     status |-> "pending", error |-> Null, downloadUrl |-> NoUrl, progress |-> 0]

(* detectFileFormat: one of makeApiCall's attempts at /detect was answered *)
DetectOk(f) ==
    /\ binding \in {"stream", "oneshot"}
    /\ inflight[f] > 0
    /\ fileInfos' = Append(fileInfos, NewFileInfo(nextId + 1, f, DetectFormat(f)))
    /\ nextId' = nextId + 1
    /\ inflight' = [inflight EXCEPT ![f] = @ - 1]
    /\ UNCHANGED << buildVars, evicted, files, compressionSettings,
                    connVars, isLoading, error, progress, conversionResults,
                    conversionComplete, pc, localVars, serverVars >>

(* makeApiCall: every one of its attempts failed; detectFileFormat catches *)
DetectFail(f) ==
    /\ binding \in {"stream", "oneshot"}
    /\ inflight[f] > 0
    /\ inflight' = [inflight EXCEPT ![f] = @ - 1]
    /\ error' = "Error detecting format"
    /\ UNCHANGED << buildVars, evicted, files, fileInfos, nextId,
                    compressionSettings, connVars, isLoading, progress,
                    conversionResults, conversionComplete, pc, localVars, serverVars >>

----------------------------------------------------------------------------
(* part_001 / part_002: handleConvertAll                                   *)

BuildFormData(infos) ==
    [i \in 1..Len(infos) |->
        [file |-> infos[i].file, name |-> infos[i].name,
         format |-> infos[i].selectedFormat, compression |-> infos[i].compression]]

(* The click on Convert All, up to `await fetch` *)
HandleConvertAll ==
    /\ binding \in {"stream", "oneshot"}
    /\ pc = "idle"
    /\ ~isLoading
    /\ batchNo < MaxBatches
    /\ IF Len(fileInfos) = 0
       THEN UNCHANGED vars
       ELSE /\ isLoading' = TRUE
            /\ error' = Null
            /\ progress' = 0
            /\ conversionResults' = << >>
            /\ conversionComplete' = FALSE
            /\ formData' = BuildFormData(fileInfos)
            /\ pc' = "fetching"
            /\ UNCHANGED << buildVars, evicted, clientList, connVars,
                            totalFiles, totalProcessed, buffer, serverVars >>

NewJobs(reqs) == [i \in 1..Len(reqs) |-> [req |-> reqs[i], state |-> "pending", result |-> NoResult]]

(* fetch resolves with an OK response: the backend has taken the batch *)
FetchOk ==
    /\ binding \in {"stream", "oneshot"}
    /\ pc = "fetching"
    /\ batchNo' = batchNo + 1
    /\ jobs' = NewJobs(formData)
    /\ completedCount' = 0
    /\ unsent' = << >>
    /\ wire' = << >>
    /\ streamClosed' = FALSE
    /\ IF binding = "stream"
       THEN /\ pc' = "reading"
            /\ buffer' = << >>
            /\ totalProcessed' = 0
            /\ totalFiles' = Len(formData)
       ELSE /\ pc' = "json"
            /\ UNCHANGED << buffer, totalProcessed, totalFiles >>
    /\ UNCHANGED << buildVars, evicted, clientList, connVars, isLoading, error,
                    progress, conversionResults, conversionComplete, formData >>

(* The locals of handleConvertAll end with the call *)
EndOfCall ==
    /\ totalFiles' = 0
    /\ totalProcessed' = 0
    /\ buffer' = << >>

(* Section 5: the caller lets go of the response.  What was written and    *)
(* not read is dropped with the connection, and the batch, which nobody    *)
(* observes any more, is followed no further.                              *)
Disconnect ==
    /\ wire' = << >>
    /\ unsent' = << >>
    /\ jobs' = << >>
    /\ completedCount' = 0
    /\ streamClosed' = FALSE

CatchConvert_MarksFailed ==
    /\ error' = "Error converting files"
    /\ isLoading' = FALSE
    /\ pc' = "idle"
    /\ EndOfCall
    /\ Disconnect
    /\ fileInfos' = [i \in 1..Len(fileInfos) |-> [fileInfos[i] EXCEPT !.status = "failed"]]
    /\ UNCHANGED << buildVars, evicted, files, inflight, nextId, compressionSettings,
                    connVars, progress, conversionResults, conversionComplete,
                    formData, batchNo >>

(* catch + finally of handleConvertAll *)
CatchConvert ==
    /\ error' = "Error converting files"
    /\ isLoading' = FALSE
    /\ pc' = "idle"
    /\ EndOfCall
    /\ Disconnect
    /\ UNCHANGED << buildVars, evicted, clientList, connVars, progress,
                    conversionResults, conversionComplete, formData, batchNo >>

(* fetch rejects, or the response is not OK *)
FetchFail ==
    /\ binding \in {"stream", "oneshot"}
    /\ pc = "fetching"
    /\ CatchConvert

(* reader.read() or response.json() rejects while the body is awaited *)
BodyError ==
    /\ binding \in {"stream", "oneshot"}
    /\ pc \in {"reading", "json"}
    /\ CatchConvert

----------------------------------------------------------------------------
(* Orchestrator (spec.md 4.4, 5): pending -> running -> succeeded|failed   *)

Handle(b, i) == << b, i >>

(* Section 5: once the caller has gone, what the jobs still do is not      *)
(* observed by anyone; the orchestrator is followed while the caller       *)
(* awaits the response body.                                               *)
Connected == pc \in {"reading", "json"}

JobStart(i) ==
    /\ Connected
    /\ i \in 1..Len(jobs)
    /\ jobs[i].state = "pending"
    /\ jobs' = [jobs EXCEPT ![i].state = "running"]
    /\ UNCHANGED << buildVars, evicted, clientList, connVars, isLoading, error,
                    progress, conversionResults, conversionComplete, pc, localVars,
                    batchNo, completedCount, unsent, wire, streamClosed >>

(* A worker finishes job i: the result is produced once, completedCount    *)
(* is bumped and the aggregator is notified.                               *)
FinishJob(js, i, p) ==
    LET r == Convert(js[i].req, Handle(batchNo, i), p)
    IN  [js EXCEPT ![i].state = r.status, ![i].result = r]

CompletedAfter_ByIndex(cc, i) == i

(* Section 5: completedCount is updated as each worker finishes a job *)
CompletedAfter(cc, i) == cc + 1

JobFinish(i) ==
    /\ Connected
    /\ i \in 1..Len(jobs)
    /\ jobs[i].state = "running"
    /\ jobs' = FinishJob(jobs, i, ResultProgress(serverSendsProgress))
    /\ unsent' = IF binding = "stream" THEN Append(unsent, jobs'[i].result) ELSE unsent
    /\ completedCount' = CompletedAfter(completedCount, i)
    /\ UNCHANGED << buildVars, evicted, clientList, connVars, isLoading, error,
                    progress, conversionResults, conversionComplete, pc, localVars,
                    batchNo, wire, streamClosed >>

(* The aggregator writes one frame with the results that became terminal   *)
(* since the previous frame; the frame that reports every job terminal     *)
(* ends the stream.                                                        *)
EmitFrame ==
    /\ Connected
    /\ binding = "stream"
    /\ unsent # << >>
    /\ ~streamClosed
    /\ wire' = wire \o Encode(ProgressFrame(completedCount, Len(jobs), unsent,
                                             serverSendsOverall))
    /\ unsent' = << >>
    /\ streamClosed' = (completedCount = Len(jobs))
    /\ UNCHANGED << buildVars, evicted, clientList, connVars, isLoading, error,
                    progress, conversionResults, conversionComplete, pc, localVars,
                    batchNo, jobs, completedCount >>

----------------------------------------------------------------------------
(* part_001 408-472: the read loop                                         *)

Decode_NoCarry(buf, chunk) == chunk

(* 412: buffer += decoder.decode(value, { stream: true }) *)
Decode(buf, chunk) == buf \o chunk

LoopState ==
    [progress |-> progress, fileInfos |-> fileInfos, totalProcessed |-> totalProcessed,
     totalFiles |-> totalFiles, conversionComplete |-> conversionComplete]

Consume_NoRemainder(st, buf, chunk) ==
    LET lines == SplitLines(Decode(buf, chunk))
    IN  [st |-> ProcessLines(st, SubSeq(lines, 1, Len(lines) - 1)), buffer |-> << >>]

(* One turn of the loop (410-460) on a chunk: decode onto the buffer,      *)
(* split at newlines, keep the last piece as the new buffer (lines.pop())  *)
(* and handle each line before it                                          *)
Consume(st, buf, chunk) ==
    LET lines == SplitLines(Decode(buf, chunk))
    IN  [st |-> ProcessLines(st, SubSeq(lines, 1, Len(lines) - 1)), buffer |-> Last(lines)]

(* reader.read() yields the next n bytes: decode, split, handle each line  *)
ReadChunk(n) ==
    /\ binding = "stream"
    /\ pc = "reading"
    /\ n \in 1..Min(MaxChunk, Len(wire))
    /\ LET r  == Consume(LoopState, buffer, SubSeq(wire, 1, n))
           st == r.st
       IN  /\ buffer' = r.buffer
           /\ progress' = st.progress
           /\ fileInfos' = st.fileInfos
           /\ totalProcessed' = st.totalProcessed
           /\ conversionComplete' = st.conversionComplete
    /\ wire' = SubSeq(wire, n + 1, Len(wire))
    /\ UNCHANGED << buildVars, evicted, files, inflight, nextId,
                    compressionSettings, connVars, isLoading, error, conversionResults,
                    pc, formData, totalFiles, batchNo, jobs, completedCount, unsent,
                    streamClosed >>

(* reader.read() yields done: lines 463-465, then finally *)
ReadDone ==
    /\ binding = "stream"
    /\ pc = "reading"
    /\ wire = << >>
    /\ streamClosed
    /\ progress' = 100
    /\ conversionComplete' = TRUE
    /\ isLoading' = FALSE
    /\ pc' = "idle"
    /\ EndOfCall
    /\ UNCHANGED << buildVars, evicted, clientList, connVars, error,
                    conversionResults, formData, serverVars >>

----------------------------------------------------------------------------
(* part_002 341-372: the aggregate response                                *)

ResponseJson ==
    /\ binding = "oneshot"
    /\ pc = "json"
    /\ completedCount = Len(jobs)
    /\ LET data == AggregateResults(jobs)
       IN  /\ progress' = TotalProgress(data)
           /\ fileInfos' = ApplyResults(fileInfos, data)
           /\ conversionResults' = data
    /\ isLoading' = FALSE
    /\ pc' = "idle"
    /\ UNCHANGED << buildVars, evicted, files, inflight, nextId,
                    compressionSettings, connVars, error, conversionComplete,
                    localVars, serverVars >>

----------------------------------------------------------------------------
(* src/frontend/src/App.js                                                 *)

InitApp ==
    /\ binding = "app"
    /\ serverSendsOverall = TRUE
    /\ serverSendsProgress \in BOOLEAN
    /\ InitCommon

(* checkBackendConnection (62-103): attempt i got an OK response *)
ConnAttemptOk ==
    /\ binding = "app"
    /\ connI \in 0..(ConnRetries - 1)
    /\ isBackendConnected' = TRUE
    /\ error' = Null
    /\ connI' = ConnDone
    /\ UNCHANGED << buildVars, evicted, clientList, isLoading, progress,
                    conversionResults, conversionComplete, pc, localVars, serverVars >>

ConnAttemptFail_GivesUpAtOnce ==
    /\ binding = "app"
    /\ connI \in 0..(ConnRetries - 1)
    /\ error' = "Backend connection error"
    /\ isBackendConnected' = FALSE
    /\ connI' = ConnDone
    /\ UNCHANGED << buildVars, evicted, clientList, isLoading, progress,
                    conversionResults, conversionComplete, pc, localVars, serverVars >>

(* checkBackendConnection: attempt i threw *)
ConnAttemptFail ==
    /\ binding = "app"
    /\ connI \in 0..(ConnRetries - 1)
    /\ IF connI = ConnRetries - 1
       THEN /\ error' = "Backend connection error"
            /\ isBackendConnected' = FALSE
            /\ connI' = ConnDone
       ELSE /\ connI' = connI + 1
            /\ UNCHANGED << error, isBackendConnected >>
    /\ UNCHANGED << buildVars, evicted, clientList, isLoading, progress,
                    conversionResults, conversionComplete, pc, localVars, serverVars >>

ExtensionFormat_FirstOnly(file) ==
    IF Len(fileInfos) = 0 THEN ToUpperCase(Last(file.name)) ELSE "UNKNOWN"

(* file.name.split('.').pop().toUpperCase() *)
ExtensionFormat(file) == ToUpperCase(Last(file.name))

AppFileInfo(file) ==
    [name |-> file.name, format |-> ExtensionFormat(file),
     outputFormat |-> FirstOption(ExtensionFormat(file)), status |-> "pending"]

(* handleDrop / handleFileSelect for one file: setFiles, then the           *)
(* synchronous head of detectFileFormat (300-314), up to generatePreview.   *)
AppHandleDrop(f) ==
    /\ binding = "app"
    /\ Len(files) < MaxFiles
    /\ files' = Append(files, f)
    /\ fileInfos' = Append(fileInfos, AppFileInfo(f))
    /\ inflight' = [inflight EXCEPT ![f] = @ + 1]
    /\ UNCHANGED << buildVars, evicted, nextId, compressionSettings, connVars,
                    isLoading, error, progress, conversionResults, conversionComplete,
                    pc, localVars, serverVars >>

InitialSetting(format, old) ==
    IF format \in {"JPG", "JPEG", "PNG"} THEN [quality |-> DefaultQuality, level |-> ""]
    ELSE IF format = "PDF" THEN [quality |-> 0, level |-> "medium"]
    ELSE old

(* detectFileFormat after `await generatePreview` (319-332) *)
AppDetectTail(f) ==
    /\ binding = "app"
    /\ inflight[f] > 0
    /\ compressionSettings' =
           [compressionSettings EXCEPT ![f.name] = InitialSetting(ExtensionFormat(f), @)]
    /\ error' = Null
    /\ inflight' = [inflight EXCEPT ![f] = @ - 1]
    /\ UNCHANGED << buildVars, evicted, files, fileInfos, nextId, connVars,
                    isLoading, progress, conversionResults, conversionComplete, pc,
                    localVars, serverVars >>

ConvertEnabled_WhileLoading ==
    /\ Len(fileInfos) > 0
    /\ isBackendConnected

ConvertEnabled_NoLengthCheck ==
    /\ ~isLoading
    /\ isBackendConnected

(* The Convert All button exists and is enabled (519, 595-601) *)
ConvertEnabled ==
    /\ Len(fileInfos) > 0
    /\ ~isLoading
    /\ isBackendConnected

(* convertFiles 358-364: one entry per element of files *)
AppFormData ==
    [i \in 1..Len(files) |->
        [file |-> files[i], name |-> files[i].name,
         format |-> fileInfos[i].outputFormat,
         compression |-> compressionSettings[files[i].name]]]

(* convertFiles (351-370), up to `await fetch`.  fileInfos[index] is        *)
(* undefined past the end of fileInfos: the TypeError is caught.            *)
ConvertFiles ==
    /\ binding = "app"
    /\ pc = "idle"
    /\ ConvertEnabled
    /\ batchNo < MaxBatches
    /\ progress' = 0
    /\ conversionResults' = << >>
    /\ IF Len(files) > Len(fileInfos)
       THEN /\ error' = "Conversion failed"
            /\ isLoading' = FALSE
            /\ UNCHANGED << pc, formData >>
       ELSE /\ error' = Null
            /\ isLoading' = TRUE
            /\ formData' = AppFormData
            /\ pc' = "fetching"
    /\ UNCHANGED << buildVars, evicted, clientList, connVars,
                    conversionComplete, totalFiles, totalProcessed, buffer, serverVars >>

AppFetchOk_Live ==
    /\ binding = "app"
    /\ pc = "fetching"
    /\ batchNo' = batchNo + 1
    /\ jobs' = NewJobs(AppFormData)
    /\ completedCount' = 0
    /\ pc' = "json"
    /\ UNCHANGED << buildVars, evicted, clientList, connVars, isLoading, error,
                    progress, conversionResults, conversionComplete, localVars,
                    unsent, wire, streamClosed >>

(* fetch resolves with an OK response: the backend has taken the batch *)
AppFetchOk ==
    /\ binding = "app"
    /\ pc = "fetching"
    /\ batchNo' = batchNo + 1
    /\ jobs' = NewJobs(formData)
    /\ completedCount' = 0
    /\ pc' = "json"
    /\ UNCHANGED << buildVars, evicted, clientList, connVars, isLoading, error,
                    progress, conversionResults, conversionComplete, localVars,
                    unsent, wire, streamClosed >>

AppRequestFails_NoFinally ==
    /\ binding = "app"
    /\ pc \in {"fetching", "json"}
    /\ error' = "Conversion failed"
    /\ pc' = "idle"
    /\ Disconnect
    /\ UNCHANGED << buildVars, evicted, clientList, connVars, isLoading, progress,
                    conversionResults, conversionComplete, localVars, batchNo >>

(* catch + finally of convertFiles (384-389): fetch rejects, the response   *)
(* is not OK, or response.json() rejects                                    *)
AppRequestFails ==
    /\ binding = "app"
    /\ pc \in {"fetching", "json"}
    /\ error' = "Conversion failed"
    /\ isLoading' = FALSE
    /\ pc' = "idle"
    /\ Disconnect
    /\ UNCHANGED << buildVars, evicted, clientList, connVars, progress,
                    conversionResults, conversionComplete, localVars, batchNo >>

(* 378-381: the backend URL is put in front of each download link *)
WithFullUrl(result) ==
    [filename |-> result.filename, status |-> result.status, error |-> result.error,
     downloadLink |-> FullUrl(result.downloadUrl)]

(* convertFiles 376-383, then finally *)
AppResponseJson ==
    /\ binding = "app"
    /\ pc = "json"
    /\ completedCount = Len(jobs)
    /\ LET results == AggregateResults(jobs)
       IN  conversionResults' = [k \in 1..Len(results) |-> WithFullUrl(results[k])]
    /\ conversionComplete' = TRUE
    /\ isLoading' = FALSE
    /\ pc' = "idle"
    /\ UNCHANGED << buildVars, evicted, clientList, connVars, error, progress,
                    localVars, serverVars >>

NextApp ==
    \/ ConnAttemptOk
    \/ ConnAttemptFail
    \/ \E f \in FileUniverse : AppHandleDrop(f)
    \/ \E f \in FileUniverse : AppDetectTail(f)
    \/ ConvertFiles
    \/ AppFetchOk
    \/ AppRequestFails
    \/ AppResponseJson
    \/ \E i \in 1..MaxFiles : JobStart(i)
    \/ \E i \in 1..MaxFiles : JobFinish(i)

SpecApp == InitApp /\ [][NextApp]_vars

(* The page when every health check is answered or fails, and the timer    *)
(* between two attempts runs out                                           *)
SpecConn == InitApp /\ [][NextApp]_vars /\ WF_vars(ConnAttemptOk \/ ConnAttemptFail)

----------------------------------------------------------------------------
(* src/frontend/src/App.js: the controls of the file list (519-591), none  *)
(* of which is disabled while a conversion is running                      *)

SliderMin == 10
SliderMax == 100

SliderValues == {SliderMin, SliderMax}
Levels == {"low", "medium", "high"}

(* The files, targets and settings the user of this page picks from *)
EditFiles == {f \in FileUniverse : f.valid}
EditFormats == {"", "PNG", "DOCX"}
EditValues == {Quality(SliderMin), Tier("low")}

(* The previews still being generated *)
RECURSIVE Pending(_)
Pending(S) ==
    IF S = {} THEN 0
    ELSE LET f == CHOOSE x \in S : TRUE IN inflight[f] + Pending(S \ {f})

(* handleDrop for one file, while fewer than MaxPending previews are pending *)
EditHandleDrop(f) ==
    /\ Pending(EditFiles) < MaxPending
    /\ AppHandleDrop(f)

AppRemove_RowOnly(i) ==
    /\ binding = "app"
    /\ i \in 1..Len(fileInfos)
    /\ fileInfos' = RemoveAt(fileInfos, i)
    /\ UNCHANGED << buildVars, evicted, files, inflight, nextId, compressionSettings,
                    connVars, isLoading, error, progress, conversionResults,
                    conversionComplete, pc, localVars, serverVars >>

(* The remove button of row i (525-533) *)
AppRemove(i) ==
    /\ binding = "app"
    /\ i \in 1..Len(fileInfos)
    /\ files' = RemoveAt(files, i)
    /\ fileInfos' = RemoveAt(fileInfos, i)
    /\ UNCHANGED << buildVars, evicted, inflight, nextId, compressionSettings, connVars,
                    isLoading, error, progress, conversionResults, conversionComplete,
                    pc, localVars, serverVars >>

(* What the format select of a row offers (557-560) *)
SelectOptions(format) ==
    {""} \cup {getConversionOptions(format)[k] : k \in 1..Len(getConversionOptions(format))}

AppSetOutputFormat_SetsFormat(i, fmt) ==
    /\ binding = "app"
    /\ i \in 1..Len(fileInfos)
    /\ fmt \in SelectOptions(fileInfos[i].format)
    /\ fileInfos' = [fileInfos EXCEPT ![i].outputFormat = fmt, ![i].format = fmt]
    /\ UNCHANGED << buildVars, evicted, files, inflight, nextId, compressionSettings, connVars,
                    isLoading, error, progress, conversionResults, conversionComplete,
                    pc, localVars, serverVars >>

(* The format select of row i (548-556) *)
AppSetOutputFormat(i, fmt) ==
    /\ binding = "app"
    /\ i \in 1..Len(fileInfos)
    /\ fmt \in SelectOptions(fileInfos[i].format)
    /\ fileInfos' = [fileInfos EXCEPT ![i].outputFormat = fmt]
    /\ UNCHANGED << buildVars, evicted, files, inflight, nextId, compressionSettings, connVars,
                    isLoading, error, progress, conversionResults, conversionComplete,
                    pc, localVars, serverVars >>

(* handleCompressionChange (340-348): a number sets quality, anything else *)
(* sets level, in the entry of that file name                              *)
handleCompressionChange(settings, fileName, value) ==
    [settings EXCEPT ![fileName] =
        IF value.kind = "quality" THEN [@ EXCEPT !.quality = value.q]
        ELSE [@ EXCEPT !.level = value.tier]]

(* The quality slider (564-576, rows of format JPG, JPEG, PNG) or the      *)
(* level select (578-590, rows of format PDF) of row i                     *)
AppCompressionChange(i, value) ==
    /\ binding = "app"
    /\ i \in 1..Len(fileInfos)
    /\ \/ /\ fileInfos[i].format \in {"JPG", "JPEG", "PNG"}
          /\ value \in {Quality(q) : q \in SliderValues}
       \/ /\ fileInfos[i].format = "PDF"
          /\ value \in {Tier(t) : t \in Levels}
    /\ compressionSettings' =
           handleCompressionChange(compressionSettings, fileInfos[i].name, value)
    /\ UNCHANGED << buildVars, evicted, files, fileInfos, inflight, nextId, connVars,
                    isLoading, error, progress, conversionResults, conversionComplete,
                    pc, localVars, serverVars >>

(* The page whose backend reports no per-file progress figure *)
InitEdit ==
    /\ InitApp
    /\ serverSendsProgress = FALSE

NextEdit ==
    \/ ConnAttemptOk
    \/ \E f \in EditFiles : EditHandleDrop(f)
    \/ \E f \in EditFiles : AppDetectTail(f)
    \/ \E i \in 1..MaxFiles : AppRemove(i)
    \/ \E i \in 1..MaxFiles : \E fmt \in EditFormats : AppSetOutputFormat(i, fmt)
    \/ \E i \in 1..MaxFiles : \E value \in EditValues : AppCompressionChange(i, value)
    \/ ConvertFiles
    \/ AppFetchOk
    \/ AppRequestFails
    \/ AppResponseJson
    \/ \E i \in 1..MaxFiles : JobStart(i)
    \/ \E i \in 1..MaxFiles : JobFinish(i)

SpecEdit == InitEdit /\ [][NextEdit]_vars

----------------------------------------------------------------------------
(* src/frontend/src/App.js with files of every kind of name: the formats   *)
(* the page knows, a document it cannot convert and a text file            *)

FormatFiles ==
    { [name |-> <<"a", "png">>, valid |-> TRUE],
      [name |-> <<"c", "bmp">>, valid |-> TRUE],
      [name |-> <<"b", "pdf">>, valid |-> TRUE],
      [name |-> <<"d", "docx">>, valid |-> TRUE],
      [name |-> <<"n", "txt">>, valid |-> TRUE] }

InitFormats ==
    /\ binding = "app"
    /\ serverSendsOverall = TRUE
    /\ serverSendsProgress = FALSE
    /\ files = << >>
    /\ fileInfos = << >>
    /\ inflight = [f \in FormatFiles |-> 0]
    /\ nextId = 0
    /\ compressionSettings = [n \in {f.name : f \in FormatFiles} |-> NoSetting]
    /\ isBackendConnected = FALSE
    /\ connI = 0
    /\ isLoading = FALSE
    /\ error = Null
    /\ progress = 0
    /\ conversionResults = << >>
    /\ conversionComplete = FALSE
    /\ pc = "idle"
    /\ formData = << >>
    /\ totalFiles = 0
    /\ totalProcessed = 0
    /\ buffer = << >>
    /\ batchNo = 0
    /\ jobs = << >>
    /\ completedCount = 0
    /\ unsent = << >>
    /\ wire = << >>
    /\ streamClosed = FALSE
    /\ evicted = {}

(* handleDrop for one file, while fewer than MaxPending previews are pending *)
FormatsHandleDrop(f) ==
    /\ Pending(FormatFiles) < MaxPending
    /\ AppHandleDrop(f)

NextFormats ==
    \/ ConnAttemptOk
    \/ \E f \in FormatFiles : FormatsHandleDrop(f)
    \/ \E f \in FormatFiles : AppDetectTail(f)
    \/ ConvertFiles
    \/ AppFetchOk
    \/ AppRequestFails
    \/ AppResponseJson
    \/ \E i \in 1..MaxFiles : JobStart(i)
    \/ \E i \in 1..MaxFiles : JobFinish(i)

SpecFormats == InitFormats /\ [][NextFormats]_vars

----------------------------------------------------------------------------
(* The Convert-one operation of the backend (spec.md 6): one request for a *)
(* raster conversion with a numeric quality, taken through the             *)
(* orchestrator while its caller awaits the answer                         *)

QualityInputs == {-1, 0, 1, 80, 100, 101, 150}

RasterFiles == {f \in FileUniverse : DetectFormat(f) \in RasterTags}

ConvertOneRequests ==
    {[file |-> f, name |-> f.name, format |-> t, compression |-> Quality(q)] :
        f \in RasterFiles, t \in RasterTags, q \in QualityInputs}

InitConvert ==
    /\ binding = "backend"
    /\ serverSendsOverall = TRUE
    /\ serverSendsProgress = FALSE
    /\ files = << >>
    /\ fileInfos = << >>
    /\ inflight = [f \in FileUniverse |-> 0]
    /\ nextId = 0
    /\ compressionSettings = [n \in AllNames |-> NoSetting]
    /\ isBackendConnected = TRUE
    /\ connI = ConnDone
    /\ isLoading = FALSE
    /\ error = Null
    /\ progress = 0
    /\ conversionResults = << >>
    /\ conversionComplete = FALSE
    /\ pc = "json"
    /\ formData \in {<< r >> : r \in ConvertOneRequests}
    /\ totalFiles = 0
    /\ totalProcessed = 0
    /\ buffer = << >>
    /\ batchNo = 1
    /\ jobs = NewJobs(formData)
    /\ completedCount = 0
    /\ unsent = << >>
    /\ wire = << >>
    /\ streamClosed = FALSE
    /\ evicted = {}

NextConvert ==
    \/ \E i \in 1..MaxFiles : JobStart(i)
    \/ \E i \in 1..MaxFiles : JobFinish(i)

SpecConvert == InitConvert /\ [][NextConvert]_vars

----------------------------------------------------------------------------
(* Artifact store (spec.md 4.5) and handleDownload of part_001 (476-514)   *)
(* and part_002 (376-414)                                                  *)

NotFound == "NotFound"

(* The handle a download URL of the client names *)
HandleOf(url) == IF url = NoUrl THEN NoUrl ELSE Tail(url)

(* The handles put() has given out and the client or the batch still names *)
PutHandles ==
    {jobs[i].result.downloadUrl : i \in {k \in 1..Len(jobs) : jobs[k].state = "success"}}
        \cup {HandleOf(fileInfos[i].downloadUrl) :
                  i \in {k \in 1..Len(fileInfos) : fileInfos[k].downloadUrl # NoUrl}}

(* get(handle): the bytes, or NotFound for an evicted or unknown handle *)
StoreGet(h) == IF h = NoUrl \/ h \in evicted THEN NotFound ELSE "bytes"

(* The retention window of artifact h has elapsed *)
Evict(h) ==
    /\ h \in PutHandles \ evicted
    /\ evicted' = evicted \cup {h}
    /\ UNCHANGED << buildVars, clientList, connVars, isLoading, error, progress,
                    conversionResults, conversionComplete, pc, localVars, serverVars >>

HandleDownload_Uncaught(i) ==
    /\ binding \in {"stream", "oneshot"}
    /\ i \in 1..Len(fileInfos)
    /\ fileInfos[i].status = "success"
    /\ IF StoreGet(HandleOf(fileInfos[i].downloadUrl)) = NotFound
       THEN /\ files' = << >>
            /\ fileInfos' = << >>
       ELSE UNCHANGED << files, fileInfos >>
    /\ UNCHANGED << buildVars, evicted, inflight, nextId, compressionSettings, connVars,
                    isLoading, error, progress, conversionResults, conversionComplete,
                    pc, localVars, serverVars >>

(* The Download button of row i, shown for a row of status success: the     *)
(* response is not OK for NotFound, the throw is caught and setError called; *)
(* otherwise the blob is handed to the browser                              *)
HandleDownload(i) ==
    /\ binding \in {"stream", "oneshot"}
    /\ i \in 1..Len(fileInfos)
    /\ fileInfos[i].status = "success"
    /\ IF StoreGet(HandleOf(fileInfos[i].downloadUrl)) = NotFound
       THEN error' = "Error downloading file"
       ELSE UNCHANGED error
    /\ UNCHANGED << buildVars, evicted, clientList, connVars, isLoading, progress,
                    conversionResults, conversionComplete, pc, localVars, serverVars >>

(* The page of part_002 and its backend, with downloads and expiry *)
InitDownload ==
    /\ Init
    /\ binding = "oneshot"
    /\ serverSendsProgress = FALSE

NextDownload ==
    \/ \E f \in FileUniverse : HandleDrop(f)
    \/ \E f \in FileUniverse : DetectOk(f)
    \/ \E f \in FileUniverse : DetectFail(f)
    \/ HandleConvertAll
    \/ FetchOk
    \/ FetchFail
    \/ BodyError
    \/ \E i \in 1..MaxFiles : JobStart(i)
    \/ \E i \in 1..MaxFiles : JobFinish(i)
    \/ ResponseJson
    \/ \E b \in 1..MaxBatches : \E i \in 1..MaxFiles : Evict(Handle(b, i))
    \/ \E i \in 1..MaxFiles : HandleDownload(i)

SpecDownload == InitDownload /\ [][NextDownload]_vars

----------------------------------------------------------------------------
Next ==
    \/ \E f \in FileUniverse : HandleDrop(f)
    \/ \E f \in FileUniverse : DetectOk(f)
    \/ \E f \in FileUniverse : DetectFail(f)
    \/ HandleConvertAll
    \/ FetchOk
    \/ FetchFail
    \/ BodyError
    \/ \E i \in 1..MaxFiles : JobStart(i)
    \/ \E i \in 1..MaxFiles : JobFinish(i)
    \/ EmitFrame
    \/ \E n \in 1..MaxChunk : ReadChunk(n)
    \/ ReadDone
    \/ ResponseJson

Spec == Init /\ [][Next]_vars

----------------------------------------------------------------------------
(* The execution budget of a job (spec.md 5, 7), and the three builds      *)
(* under the scheduling that lets a batch proceed                          *)

TimeoutResult(req, p) ==
    [filename |-> req.name, status |-> "failed", error |-> "timeout",
     downloadUrl |-> NoUrl, progress |-> p]

JobTimeout_Never(i) ==
    /\ FALSE
    /\ UNCHANGED vars

(* Job i has run past its budget: it is marked failed with a timeout error *)
(* and counted as completed                                                *)
JobTimeout(i) ==
    /\ Connected
    /\ i \in 1..Len(jobs)
    /\ jobs[i].state = "running"
    /\ jobs' = [jobs EXCEPT ![i].state = "failed",
                            ![i].result = TimeoutResult(jobs[i].req,
                                              ResultProgress(serverSendsProgress))]
    /\ unsent' = IF binding = "stream" THEN Append(unsent, jobs'[i].result) ELSE unsent
    /\ completedCount' = CompletedAfter(completedCount, i)
    /\ UNCHANGED << buildVars, evicted, clientList, connVars, isLoading, error,
                    progress, conversionResults, conversionComplete, pc, localVars,
                    batchNo, wire, streamClosed >>

InitTimeout == Init \/ InitApp

NextTimeout ==
    \/ Next
    \/ NextApp
    \/ \E i \in 1..MaxFiles : JobTimeout(i)

(* What the backend and the browser do sooner or later: answer the         *)
(* request, start each job, stop a job at its budget, write a frame for    *)
(* finished jobs, and resume the handler when its promise settles.  A      *)
(* conversion itself need never finish.                                    *)
Fairness ==
    /\ WF_vars(FetchOk)
    /\ WF_vars(AppFetchOk)
    /\ \A i \in 1..MaxFiles : WF_vars(JobStart(i))
    /\ \A i \in 1..MaxFiles : WF_vars(JobTimeout(i))
    /\ WF_vars(EmitFrame)
    /\ WF_vars(\E n \in 1..MaxChunk : ReadChunk(n))
    /\ WF_vars(ReadDone)
    /\ WF_vars(ResponseJson)
    /\ WF_vars(AppResponseJson)

SpecTimeout == InitTimeout /\ [][NextTimeout]_vars /\ Fairness

----------------------------------------------------------------------------
(* Properties                                                              *)

(* The positions of fileInfos that were submitted with the last request:   *)
(* fileInfos only grows, and the request is built from all of it.          *)
Submitted == 1..Len(formData)

(* The client has seen its batch through: the stream was read to its end   *)
(* (part_001) or the aggregate response was applied (part_002).            *)
Completed ==
    /\ pc = "idle"
    /\ \/ binding = "stream" /\ conversionComplete
       \/ binding = "oneshot" /\ conversionResults # << >>

(* ... and the orchestrator still holds the jobs of that batch *)
BatchEnded == Completed /\ Len(jobs) = Len(formData)

LastFrame == wire[Len(wire) - 1].frame

(* C1: the frame that ends the stream reports completedCount = N and       *)
(* overall progress 100 whatever the jobs' outcomes, and the client that   *)
(* has read the whole stream shows 100 and holds no unparsed remainder.    *)
C1_FinalFrame ==
    /\ (binding = "stream" /\ streamClosed /\ Len(wire) >= 2) =>
           /\ LastFrame.processed = Len(jobs)
           /\ LastFrame.totalJobs = Len(formData)
           /\ LastFrame.overall_progress = 100
    /\ (binding = "stream" /\ pc = "reading" /\ streamClosed /\ wire = << >>) =>
           /\ completedCount = Len(jobs)
           /\ Len(jobs) = Len(formData)
           /\ buffer = << >>
           /\ progress = 100
           /\ conversionComplete

C1_Witness ==
    /\ binding = "stream"
    /\ pc = "reading"
    /\ streamClosed
    /\ wire = << >>
    /\ progress = 100
    /\ Len(jobs) = 2
    /\ \E i \in 1..Len(jobs) : jobs[i].state = "failed"

(* C2: at the end of a batch every file shows the outcome of its own job,  *)
(* and a batch with exactly one corrupt file shows exactly one failed and  *)
(* N-1 succeeded.                                                          *)
C2_Isolation ==
    BatchEnded =>
        /\ \A i \in Submitted :
              /\ fileInfos[i].status = jobs[i].result.status
              /\ fileInfos[i].error = OrNull(jobs[i].result.error)
              /\ fileInfos[i].downloadUrl = FullUrl(jobs[i].result.downloadUrl)
        /\ Cardinality({i \in Submitted : ~formData[i].file.valid}) = 1 =>
              /\ Cardinality({i \in Submitted : fileInfos[i].status = "failed"}) = 1
              /\ Cardinality({i \in Submitted : fileInfos[i].status = "success"})
                     = Len(formData) - 1

C4_MonotonicProgress ==
    [][(batchNo' = batchNo /\ Connected) =>
           /\ Connected' => /\ completedCount' >= completedCount
                             /\ totalProcessed' >= totalProcessed
           /\ progress' >= progress]_vars

C4_Witness ==
    /\ binding = "stream"
    /\ pc = "reading"
    /\ Len(jobs) = 2
    /\ jobs[2].state \in Terminal
    /\ jobs[1].state \notin Terminal
    /\ progress = 50

(* C5: the overall progress in every frame on the stream, and the one the  *)
(* client shows after the aggregate response, is                           *)
(* round(100 * completedCount / totalJobs), a value in 0..100.             *)
C5_OverallProgress ==
    /\ \A k \in 1..Len(wire) :
          wire[k].t = "head" =>
              /\ wire[k].frame.totalJobs = Len(formData)
              /\ wire[k].frame.overall_progress
                     = MathRound(100 * wire[k].frame.processed, Len(formData))
              /\ wire[k].frame.overall_progress \in 0..100
    /\ (binding = "oneshot" /\ BatchEnded) =>
          progress = MathRound(100 * completedCount, Len(formData))
    /\ progress \in 0..100

(* C6: a file starts pending, and once its status is success or failed no  *)
(* later frame, response or batch run changes its status, error or         *)
(* download URL.                                                           *)
C6_TerminalIsFinal ==
    [][\A i \in 1..Len(fileInfos) :
          fileInfos[i].status \in Terminal =>
              /\ fileInfos'[i].status = fileInfos[i].status
              /\ fileInfos'[i].error = fileInfos[i].error
              /\ fileInfos'[i].downloadUrl = fileInfos[i].downloadUrl]_vars

(* C7: a file has an error exactly when its status is failed and a         *)
(* download URL exactly when its status is success.                        *)
C7_ErrorIffFailed ==
    \A i \in 1..Len(fileInfos) :
        /\ fileInfos[i].error # Null <=> fileInfos[i].status = "failed"
        /\ fileInfos[i].downloadUrl # NoUrl <=> fileInfos[i].status = "success"

C7_Witness ==
    \E i, j \in 1..Len(fileInfos) :
        /\ fileInfos[i].status = "failed"
        /\ fileInfos[i].error # Null
        /\ fileInfos[i].downloadUrl = NoUrl
        /\ fileInfos[j].status = "success"
        /\ fileInfos[j].error = Null
        /\ fileInfos[j].downloadUrl # NoUrl

(* C8: completedCount is the number of terminal jobs, and while a request  *)
(* is out the batch is shown complete only when every submitted file has   *)
(* its result.                                                             *)
C8_CompleteIffAllTerminal ==
    /\ completedCount = Cardinality(TerminalJobs(jobs))
    /\ (pc \in {"fetching", "json"} /\ conversionComplete) =>
           Len(conversionResults) = Len(formData)

(* C9 as stated: a request is issued only for a batch that has files, and  *)
(* every request that was issued ends with one result per file.            *)
C9_OnlyEmptyBatchAborts ==
    /\ [](pc # "idle" => Len(formData) > 0)
    /\ [][(pc # "idle" /\ pc' = "idle") =>
              Len(conversionResults') = Len(formData)]_vars

(* C9 amended: a request is issued only for a batch that has files; a      *)
(* request that was issued ends either with one result per file or with    *)
(* the request failing, which sets the error and leaves the file list and  *)
(* the results as they were.                                               *)
C9_AbortOnlyByFailedRequest ==
    /\ [](pc # "idle" => Len(formData) > 0)
    /\ [][(pc # "idle" /\ pc' = "idle") =>
              \/ /\ Len(conversionResults') = Len(formData)
                 /\ conversionComplete'
              \/ /\ error' = "Conversion failed"
                 /\ conversionResults' = conversionResults
                 /\ fileInfos' = fileInfos
                 /\ files' = files]_vars

C9_Witness ==
    /\ binding = "app"
    /\ pc = "idle"
    /\ error = "Conversion failed"
    /\ Len(formData) > 0
    /\ conversionResults = << >>

(* C10: what the streaming client shows at the end of a batch is what the  *)
(* one-shot client computes from the aggregate response of the same jobs:  *)
(* the same status, error and download URL per file and the same overall   *)
(* progress.                                                               *)
C10_SameOutcome ==
    (binding = "stream" /\ BatchEnded) =>
        LET data == AggregateResults(jobs)
            oneShot == ApplyResults(fileInfos, data)
        IN  /\ progress = TotalProgress(data)
            /\ \A i \in Submitted :
                  /\ fileInfos[i].status = oneShot[i].status
                  /\ fileInfos[i].error = oneShot[i].error
                  /\ fileInfos[i].downloadUrl = oneShot[i].downloadUrl

----------------------------------------------------------------------------
(* The ConversionRequests the orchestrator works on *)
Requests(js) == [i \in 1..Len(js) |-> js[i].req]

(* C11: a ConversionRequest is fixed when the batch is submitted.  While   *)
(* convertFiles awaits the backend, no step (adding or removing a file,    *)
(* choosing another target format, moving a compression control) changes   *)
(* the submitted requests, and the requests the backend works on are the   *)
(* submitted ones.                                                         *)
C11_RequestFixed ==
    /\ [](pc = "json" => Requests(jobs) = formData)
    /\ [][(pc # "idle" /\ pc' # "idle") =>
              /\ formData' = formData
              /\ pc = "json" => Requests(jobs') = Requests(jobs)]_vars

(* A batch of two whose every job is terminal while, since it was          *)
(* submitted, each row of the list got another target and another setting  *)
C11_Witness ==
    /\ pc = "json"
    /\ Len(formData) = 2
    /\ completedCount = 2
    /\ Len(files) = 2
    /\ \A i \in 1..2 :
          /\ fileInfos[i].outputFormat # formData[i].format
          /\ compressionSettings[files[i].name] # formData[i].compression
          /\ files[i].name = formData[i].name

(* The rows whose compression option or target format a step changes *)
RowsChanged ==
    {j \in 1..Len(fileInfos) :
        \/ compressionSettings'[fileInfos[j].name] # compressionSettings[fileInfos[j].name]
        \/ fileInfos'[j].outputFormat # fileInfos[j].outputFormat}

(* C12: no cross-contamination.  A step that leaves the list of files as   *)
(* it is (a format select or a compression control was used) changes the   *)
(* target format or the compression option of at most one row, also when   *)
(* two rows carry the same file name.                                      *)
C12_NoCrossContamination ==
    [][(files' = files /\ Len(fileInfos') = Len(fileInfos) /\ inflight' = inflight)
          => Cardinality(RowsChanged) <= 1]_vars

(* The request req with the numeric quality v *)
AtQuality(req, v) == [req EXCEPT !.compression = Quality(v)]

(* C13: compression clamping.  A finished raster job whose numeric quality *)
(* is outside [1,100] was not rejected for it, and its result and output   *)
(* bytes are those of the same request at quality 100 (quality above 100)  *)
(* or at quality 1 (quality below 1).                                      *)
C13_Clamped ==
    \A i \in 1..Len(jobs) :
        (/\ jobs[i].state \in Terminal
         /\ jobs[i].req.format \in RasterTags
         /\ jobs[i].req.compression.kind = "quality") =>
            LET req == jobs[i].req
                q == req.compression.q
                same(v) ==
                    /\ jobs[i].result
                         = Convert(AtQuality(req, v), Handle(batchNo, i), jobs[i].result.progress)
                    /\ Artifact(req) = Artifact(AtQuality(req, v))
            IN  /\ req.file.valid => jobs[i].state = "success"
                /\ q > 100 => same(100)
                /\ q < 1 => same(1)

(* A raster conversion asked for at a quality below 1 has succeeded *)
C13_Witness ==
    /\ binding = "backend"
    /\ Len(jobs) = 1
    /\ jobs[1].state = "success"
    /\ jobs[1].req.compression.q < 1

(* JPG names the JPEG tag *)
Canonical(format) == IF format = "JPG" THEN "JPEG" ELSE format

(* The shape spec.md 6 requires of the compression option for a target:    *)
(* a numeric quality, a tier, or none                                      *)
ShapeOk(target, setting) ==
    IF Canonical(target) \in RasterTags
    THEN setting.quality # 0 /\ setting.level = ""
    ELSE IF Canonical(target) \in DocumentTags
    THEN setting.level \in Levels /\ setting.quality = 0
    ELSE setting = NoSetting

(* C14: every file of a submitted batch carries a compression option of    *)
(* the shape its target format requires.  Stated for batches submitted     *)
(* once every preview of the list has been generated.                      *)
C14_OptionShape ==
    [][(pc = "idle" /\ pc' = "fetching" /\ Pending(FormatFiles) = 0) =>
          \A i \in 1..Len(formData') :
              ShapeOk(formData'[i].format, formData'[i].compression)]_vars

(* The targets the page offers for a row, by tag *)
Offered(format) ==
    {Canonical(getConversionOptions(format)[k]) : k \in 1..Len(getConversionOptions(format))}

(* C15: the supported pairs are PDF to DOCX and the ordered pairs among     *)
(* PNG, JPEG and BMP.  For every file of the list, the targets offered are  *)
(* DOCX for a PDF, raster tags including every other raster tag for a       *)
(* raster file, and none for any other file.                                *)
C15_SupportedPairs ==
    \A i \in 1..Len(fileInfos) :
        LET tag == Canonical(fileInfos[i].format)
        IN  /\ tag = "PDF" => Offered(tag) = {"DOCX"}
            /\ tag \in RasterTags =>
                  /\ RasterTags \ {tag} \subseteq Offered(tag)
                  /\ Offered(tag) \subseteq RasterTags
            /\ tag \notin RasterTags \cup {"PDF"} => Offered(tag) = {}

(* C16: detection yields a FormatTag from PDF, PNG, JPEG, BMP, DOCX,        *)
(* UNKNOWN for every file, and every file dropped is reported in the list.  *)
C16_DetectsKnownTag ==
    /\ Len(fileInfos) = Len(files)
    /\ \A i \in 1..Len(fileInfos) :
          /\ fileInfos[i].name = files[i].name
          /\ fileInfos[i].format \in KnownTags \cup {"UNKNOWN"}

(* C17: detection is idempotent.  Two rows of the list that hold the same  *)
(* file (the same bytes under the same name) carry the same detected       *)
(* format, whatever happened between the two detections.                   *)
C17_DetectIdempotent ==
    \A i, j \in 1..Len(fileInfos) :
        (i <= Len(files) /\ j <= Len(files) /\ files[i] = files[j]) =>
            fileInfos[i].format = fileInfos[j].format

(* The same file twice in the list, the second dropped after a batch of    *)
(* the first alone was submitted and completed                             *)
C17_Witness ==
    /\ Len(files) = 2
    /\ Len(fileInfos) = 2
    /\ files[1] = files[2]
    /\ Len(formData) = 1
    /\ Len(conversionResults) = 1
    /\ conversionComplete
    /\ pc = "idle"

(* The detected formats of the rows, in list order *)
Formats(infos) == [j \in 1..Len(infos) |-> infos[j].format]

(* C18: the detected format of a file is immutable.  A step that keeps the *)
(* number of rows keeps the format of every row, a step that adds a row    *)
(* keeps the formats of the rows there were, and a step that removes row i *)
(* keeps the formats of the others.                                        *)
C18_FormatImmutable ==
    [][/\ Len(fileInfos') = Len(fileInfos) => Formats(fileInfos') = Formats(fileInfos)
       /\ Len(fileInfos') > Len(fileInfos) =>
              SubSeq(Formats(fileInfos'), 1, Len(fileInfos)) = Formats(fileInfos)
       /\ Len(fileInfos') < Len(fileInfos) =>
              \E i \in 1..Len(fileInfos) :
                  /\ files' = RemoveAt(files, i)
                  /\ Formats(fileInfos') = RemoveAt(Formats(fileInfos), i)]_vars

(* After a batch of two was converted and its results applied, one row was *)
(* removed, and the row left has another target and another quality than   *)
(* it was given when its format was detected                               *)
C18_Witness ==
    /\ conversionComplete
    /\ Len(conversionResults) = 2
    /\ Len(fileInfos) = 1
    /\ fileInfos[1].format = "PNG"
    /\ fileInfos[1].outputFormat # FirstOption("PNG")
    /\ compressionSettings[fileInfos[1].name].quality = SliderMin

(* C19: the download of an evicted or unknown handle is answered NotFound,  *)
(* and handleDownload then records an error; whatever the answer, it       *)
(* leaves the file list, every row with its status and result, the         *)
(* results and the progress as they were.                                  *)
C19_NotFoundIsAnError ==
    [][\A i \in 1..MaxFiles :
          HandleDownload(i) =>
              /\ StoreGet(HandleOf(fileInfos[i].downloadUrl)) = NotFound =>
                     error' = "Error downloading file"
              /\ UNCHANGED << files, fileInfos, progress, conversionResults,
                              conversionComplete, isLoading, pc, jobs >>]_vars

(* A converted file whose artifact was purged was asked for: the error is  *)
(* shown and the row is still a success with its link                      *)
C19_Witness ==
    /\ error = "Error downloading file"
    /\ \E i \in 1..Len(fileInfos) :
          /\ fileInfos[i].status = "success"
          /\ HandleOf(fileInfos[i].downloadUrl) \in evicted

(* C20: no job stalls a batch.  A job stopped at its budget is failed with *)
(* a timeout error, and a handler that waits for the backend (for the      *)
(* response, or for the next progress frame) gets to its end.              *)
C20_NoStall ==
    /\ [][\A i \in 1..MaxFiles :
             JobTimeout(i) =>
                 /\ jobs'[i].state = "failed"
                 /\ jobs'[i].result.error = "timeout"
                 /\ completedCount' = completedCount + 1]_vars
    /\ (pc # "idle") ~> (pc = "idle")

(* A batch of two is complete, one of its jobs stopped at its budget *)
C20_Witness ==
    /\ pc = "idle"
    /\ conversionComplete
    /\ Len(jobs) = 2
    /\ completedCount = 2
    /\ \E i \in 1..2 : jobs[i].result.error = "timeout"
    /\ \E i \in 1..2 : jobs[i].state = "success"

(* C21: a file that was selected or dropped is uploaded to /detect, and    *)
(* what is displayed for it is its name and the format the backend         *)
(* detected.  Every row of the list shows the name of its file and the     *)
(* answer of /detect for that file.                                        *)
C21_ShowsDetectedFormat ==
    \A i \in 1..Len(fileInfos) :
        i <= Len(files) =>
            /\ fileInfos[i].name = files[i].name
            /\ fileInfos[i].format = DetectFormat(files[i])

(* C22: what the streaming client makes of the stream does not depend on   *)
(* where the bytes are cut into chunks.  While the stream is read, taking  *)
(* the next n bytes as one chunk leaves the same state and the same        *)
(* buffer as taking their first k bytes and then the other n - k, for any  *)
(* n and k: each frame is handled once, in order, wherever the cuts fall.  *)
C22_ChunkingIrrelevant ==
    (binding = "stream" /\ pc = "reading") =>
        \A n \in 0..Len(wire) : \A k \in 0..n :
            LET first == Consume(LoopState, buffer, SubSeq(wire, 1, k))
            IN  Consume(first.st, first.buffer, SubSeq(wire, k + 1, n))
                    = Consume(LoopState, buffer, SubSeq(wire, 1, n))

(* Part of a frame is in the buffer while the rest of it and a whole       *)
(* second frame wait to be read                                            *)
C22_Witness ==
    /\ binding = "stream"
    /\ pc = "reading"
    /\ buffer # << >>
    /\ Len(wire) >= 5

(* Every row of the list is still there with its status, error and link *)
RowsKept ==
    /\ Len(fileInfos') >= Len(fileInfos)
    /\ \A i \in 1..Len(fileInfos) :
          /\ fileInfos'[i].status = fileInfos[i].status
          /\ fileInfos'[i].error = fileInfos[i].error
          /\ fileInfos'[i].downloadUrl = fileInfos[i].downloadUrl

(* The convert-batch request is out and has not been answered with the     *)
(* frames or results of the batch                                          *)
RequestOut == pc = "fetching" \/ (binding = "oneshot" /\ pc = "json")

(* C23: a convert-batch request that fails as a whole changes no file.     *)
(* From the submission on, no step other than the arrival of the results   *)
(* changes the status, error or link of a row; the step that ends the      *)
(* handler without results sets the error message, clears isLoading and    *)
(* leaves the progress shown as it is.                                     *)
C23_FailedRequestKeepsRows ==
    [][(RequestOut /\ conversionResults' = conversionResults) =>
          /\ RowsKept
          /\ pc' = "idle" =>
                /\ error' = "Error converting files"
                /\ isLoading' = FALSE
                /\ progress' = progress]_vars

(* A second request failed: the row converted by the first batch is still  *)
(* a success with its link                                                 *)
C23_Witness ==
    /\ binding = "oneshot"
    /\ pc = "idle"
    /\ error = "Error converting files"
    /\ batchNo = 1
    /\ conversionResults = << >>
    /\ \E i \in 1..Len(fileInfos) :
          fileInfos[i].status = "success" /\ fileInfos[i].downloadUrl # NoUrl

(* C24: the loading flag brackets a batch.  isLoading is true exactly      *)
(* while convertFiles is between its submission and its end, whichever     *)
(* way it ends (results applied, response not OK, exception).              *)
C24_LoadingBrackets == isLoading <=> pc # "idle"

(* One batch has ended with its results and a later one with the error:    *)
(* the flag is down again                                                  *)
C24_Witness ==
    /\ binding = "app"
    /\ pc = "idle"
    /\ ~isLoading
    /\ conversionComplete
    /\ error = "Conversion failed"
    /\ conversionResults = << >>

(* C25: at most one batch is in flight.  While convertFiles has not ended  *)
(* the Convert All button is disabled; no step then replaces the submitted *)
(* requests or lets the backend take another batch, and the results that   *)
(* arrive are those of the submitted files, in their order.                *)
C25_OneBatchInFlight ==
    /\ [](pc # "idle" => ~ConvertEnabled)
    /\ [][pc # "idle" =>
             /\ formData' = formData
             /\ pc = "json" => batchNo' = batchNo]_vars
    /\ [][(conversionResults' # conversionResults /\ conversionResults' # << >>) =>
             /\ Len(conversionResults') = Len(formData)
             /\ \A k \in 1..Len(formData) :
                   conversionResults'[k].filename = formData[k].name]_vars

(* The second batch is with the backend while the list is there and the    *)
(* backend is connected: only isLoading keeps the button disabled          *)
C25_Witness ==
    /\ binding = "app"
    /\ pc = "json"
    /\ batchNo = 2
    /\ isLoading
    /\ Len(fileInfos) > 0
    /\ isBackendConnected

(* C26: checkBackendConnection makes at most ConnRetries attempts and      *)
(* stops at the first that succeeds.  A step of it either counts a failed  *)
(* attempt that is not the last and sets nothing, or ends it: with         *)
(* isBackendConnected set and the error cleared after a success, or, only  *)
(* when the last attempt has failed, with the connection error and         *)
(* isBackendConnected false.  Nothing else writes isBackendConnected, and  *)
(* the function always ends.                                               *)
C26_ConnectionCheck ==
    /\ [](connI \in 0..(ConnRetries - 1) \cup {ConnDone})
    /\ [](connI # ConnDone => ~isBackendConnected)
    /\ [][connI' # connI =>
             \/ /\ connI' = connI + 1
                /\ connI' < ConnRetries
                /\ UNCHANGED << isBackendConnected, error >>
             \/ /\ connI' = ConnDone
                /\ isBackendConnected'
                /\ error' = Null
             \/ /\ connI' = ConnDone
                /\ connI = ConnRetries - 1
                /\ ~isBackendConnected'
                /\ error' = "Backend connection error"]_vars
    /\ [][isBackendConnected' # isBackendConnected => connI' # connI]_vars
    /\ <>(connI = ConnDone)

(* The third attempt has failed too *)
C26_Witness ==
    /\ connI = ConnDone
    /\ ~isBackendConnected
    /\ error = "Backend connection error"

(* C27: files and fileInfos stay aligned.  Whatever was dropped, removed   *)
(* or re-targeted, the two lists have the same length and row i carries    *)
(* the name and the format of file i, and convertFiles submits file i      *)
(* with the output format chosen in row i.                                 *)
C27_ListsAligned ==
    /\ [](/\ Len(fileInfos) = Len(files)
          /\ \A i \in 1..Len(files) :
                /\ fileInfos[i].name = files[i].name
                /\ fileInfos[i].format = ExtensionFormat(files[i]))
    /\ [][(pc = "idle" /\ pc' = "fetching") =>
             /\ Len(formData') = Len(files)
             /\ \A i \in 1..Len(files) :
                   /\ formData'[i].file = files[i]
                   /\ formData'[i].format = fileInfos[i].outputFormat]_vars

(* Two different files are submitted, the document first and with no       *)
(* target chosen, the image second with its preselected one                *)
C27_Witness ==
    /\ binding = "app"
    /\ pc = "fetching"
    /\ Len(files) = 2
    /\ ExtensionFormat(files[1]) = "PDF"
    /\ ExtensionFormat(files[2]) = "PNG"
    /\ formData[1].format = ""
    /\ formData[2].format = "PNG"
    /\ fileInfos[1].outputFormat = ""

====
